---- MODULE Spec2Model ----
(***************************************************************************)
(* The device-authorization login of the botbyte CLI                       *)
(* (server/src/cli/commands/auth/login.ts): loginAction, pollForToken and  *)
(* the credential file.  The token endpoint is served by the better-auth   *)
(* deviceAuthorization plugin; its answers are inputs of the poller.       *)
(*                                                                         *)
(* Time is in milliseconds, as in the code.  A JavaScript string is a      *)
(* sequence of words, so that String.prototype.includes is computed and    *)
(* not assumed; undefined is the reserved one-word sequence Undefined.     *)
(***************************************************************************)
EXTENDS Integers, Sequences, FiniteSets, TLC

\* ------------------------------------------------------------------ bounds
\* largest expires_in (seconds) a registration of the model advertises
MaxExpiresIn == 20
\* largest time (seconds) an exchange request takes to be answered
MaxLatency == 1
\* the commands on the credential cache are followed for MaxTicks ticks
MaxTicks == 2

\* --------------------------------------------------------------- constants
DefaultExpiresIn == 900
DefaultInterval == 5
SlowDownStepMs == 5000
ExpiryMarginMs == 300000

\* ------------------------------------------------------- JavaScript values
Undefined == <<"<undefined>">>
EmptyString == <<>>
Null == <<"<null>">>
NoNumber == -1
Running == -1

\* a value is truthy unless it is undefined or the empty string
Truthy(v) == v # Undefined /\ v # EmptyString

\* a || b
Or(a, b) == IF Truthy(a) THEN a ELSE b

\* message.includes(word)
Includes(message, word) == \E i \in 1..Len(message) : message[i] = word

\* ------------------------------------------------------------ the messages
AuthorizationPending == <<"authorization", "_", "pending">>
SlowDown == <<"slow", "_", "down">>
AccessDenied == <<"access", "_", "denied">>
ExpiredToken == <<"expired", "_", "token">>

DeniedMessage == <<"Access", "was", "denied", "by", "the", "user">>
ExpiredMessage == <<"The", "device", "code", "has", "expired.", "Please", "try", "again.">>
AuthorizationFailedMessage == <<"Authorization", "failed">>
InitiateFailedPrefix == <<"Failed", "to", "initiate", "device", "authorization:">>

\* ------------------------------------------------- inputs of the token poll
\* what the server (or the network) answers to one exchange request
\* the optional fields of a token response that storeToken copies
Extras(refresh_token, token_type, scope, user) ==
    [refresh_token |-> refresh_token, token_type |-> token_type, scope |-> scope, user |-> user]

NoExtras == Extras(Undefined, Undefined, Undefined, Undefined)
AllExtras == Extras(<<"refresh1">>, <<"DPoP">>, <<"openid", "profile", "email">>, <<"user1">>)

Response(kind, parsable, message, access_token, expires_in, error, error_description) ==
    [kind |-> kind, parsable |-> parsable, message |-> message,
     access_token |-> access_token, expires_in |-> expires_in,
     error |-> error, error_description |-> error_description,
     extras |-> NoExtras]

NoResponse == Response("none", FALSE, Undefined, Undefined, NoNumber, Undefined, Undefined)

\* fetch rejects: Node's fetch rejects with a TypeError, an Error instance
NetworkMessages == {<<"fetch", "failed">>, <<"connection", "pending", "timed", "out">>}
Rejections ==
    {Response("throw", FALSE, m, Undefined, NoNumber, Undefined, Undefined) : m \in NetworkMessages}

\* the SyntaxError of JSON.parse; newer engines quote the body in it
ParseMessages == {<<"Unexpected", "token">>, <<"Unexpected", "token", "pending", "is", "not", "valid", "JSON">>}

TokenLifetimes == {NoNumber, 3600}
\* the token responses that carry an access_token
TokenResponses ==
    {Response("ok", TRUE, Undefined, <<"tok1">>, NoNumber, Undefined, Undefined),
     Response("ok", TRUE, Undefined, <<"tok1">>, 3600, Undefined, Undefined),
     [Response("ok", TRUE, Undefined, <<"tok1">>, 3600, Undefined, Undefined) EXCEPT !.extras = AllExtras]}
OkResponses ==
    {Response("ok", TRUE, Undefined, Undefined, e, Undefined, Undefined) : e \in TokenLifetimes}
    \cup TokenResponses
    \cup {Response("ok", FALSE, m, Undefined, NoNumber, Undefined, Undefined) : m \in ParseMessages}

ErrorCodes == {Undefined, EmptyString, AuthorizationPending, SlowDown, AccessDenied, ExpiredToken,
               <<"invalid", "_", "grant">>, <<"verification", "_", "pending">>}
ErrorDescriptions == {Undefined, <<"server", "says", "no">>, <<"approval", "still", "pending">>}
ErrorResponses ==
    {Response("notok", TRUE, Undefined, Undefined, NoNumber, c, d) :
        c \in ErrorCodes, d \in ErrorDescriptions}
    \cup {Response("notok", FALSE, m, Undefined, NoNumber, Undefined, Undefined) : m \in ParseMessages}

TokenEndpointResponses == Rejections \cup OkResponses \cup ErrorResponses

LatenciesMs == {0, 1000 * MaxLatency}

\* ------------------------------------------------- inputs of a registration
ExpiresInInputs == {NoNumber, 12, MaxExpiresIn}
IntervalInputs == {NoNumber, 4}
RegistrationErrors == {<<"fetch", "failed">>}
ErrorTexts == {<<"Internal", "Server", "Error">>}

\* ------------------------------------------------------ the credential file
\* new Date(ms).toISOString(), and new Date(text).getTime() of such a text
toISOString(ms) == <<"iso", ms>>
getTime(text) == text[2]

\* obj.key, undefined when the object has no such key
Field(obj, key) == IF key \in DOMAIN obj THEN obj[key] ELSE Undefined

\* JSON.stringify writes a text that leaves out the keys whose value is
\* undefined; JSON.parse gives back an object with the keys of the text
JSONStringify(data) ==
    [json |-> [key \in {k \in DOMAIN data : data[k] # Undefined} |-> data[key]]]
JSONParse(text) == text.json

\* credentials.json: no file, a file of length 0, or a JSON text
Absent == [exists |-> FALSE]
EmptyFile == [exists |-> TRUE]

\* what getStoredToken returns when there is no credential
NullToken == [null |-> TRUE]

\* how requireAuth ends: it returns the token, or shows a message and exits
AuthResult(outcome, tokenData, message, code) ==
    [outcome |-> outcome, token |-> tokenData, message |-> message, exitCode |-> code]
NoAuth == AuthResult("none", NullToken, Undefined, Running)

TokenData(accessToken, refreshToken, tokenType, scope, expiresAt, createdAt, user) ==
    [accessToken |-> accessToken, refreshToken |-> refreshToken, tokenType |-> tokenType,
     scope |-> scope, expiresAt |-> expiresAt, createdAt |-> createdAt, user |-> user]

\* a credential written by an earlier login, with this expiresAt
OldCredential(expiresAt) ==
    JSONStringify(TokenData(<<"old">>, Undefined, <<"Bearer">>, Undefined, expiresAt,
                            toISOString(0), <<"user0">>))

\* what the file may hold when login starts
InitialFiles ==
    {Absent,
     OldCredential(Null),
     OldCredential(toISOString(60000)),
     OldCredential(toISOString(600000))}

VARIABLES
    pc,             \* position of loginAction: login, register, poll, exchange, finish,
                    \* writing, stored, exited
    now,            \* Date.now()
    tokenFile,      \* contents of credentials.json, Absent when there is no file
    pendingText,    \* the text fs.writeFile has still to write, Absent when none
    prevFile,       \* contents of the file when the latest storeToken or
                    \* clearStoredToken began
    exitCode,       \* exit code of the process, Running while it runs
    errorMessage,   \* what log.error showed, Undefined when nothing
    warned,         \* the could-not-save warning was shown
    succeeded,      \* the successfully-authenticated message was shown
    storeCalls,     \* calls of storeToken
    saved,          \* what storeToken returned to loginAction
    cancelled,      \* the user interrupted login
    expiresInMs,    \* pollForToken
    initialInterval,
    startTime,
    pollInterval,
    dots,
    attempts,       \* exchange requests sent so far
    lastAttemptAt,  \* Date.now() when the latest exchange request was sent
    nPending,       \* authorization_pending answers so far
    nSlowDown,      \* slow_down answers so far
    latencySeen,    \* some exchange request took time to be answered
    lastResponse,   \* the answer to the latest exchange request
    pollResult,     \* none, token, null, thrown
    token,          \* what pollForToken returned
    cachePc,        \* a command using the credential cache: idle, writing
    cacheOp,        \* the operation of the cache that completed last
    cachePrev,      \* the operation that completed before it
    cacheIn,        \* the token response given to the latest storeToken
    cacheAt,        \* Date.now() when the latest storeToken built its TokenData
    cacheOk,        \* what the latest storeToken or clearStoredToken returned
    loaded,         \* what the latest getStoredToken returned
    expired,        \* what the latest isTokenExpired returned
    auth,           \* how the latest requireAuth ended
    user_code,      \* req.query.user_code of the latest GET on a device route
    pendingCodes,   \* the user codes of the pending, unexpired requests at that time
    deviceOp,       \* the device route or page function that ran last
    httpStatus,     \* the status of its answer, 0 when there is none
    formattedCode,  \* the user code it answered with or sent on
    route,          \* the page the browser shows, "none" before it opens one
    userCode,       \* the user_code of the approval page's address
    approvalStatus, \* status of DeviceApprovalContent
    approvalError,  \* its error
    approvalUser,   \* its user
    checkAuth,      \* checkAuth of its effect: none, pending, done
    inFlight,       \* the approve and the deny requests not yet answered
    approvesSent,   \* approve requests sent so far
    deniesSent      \* deny requests sent so far

fileVars == <<tokenFile, pendingText, prevFile>>

loginVars == <<pc, exitCode, errorMessage, warned, succeeded, storeCalls, saved, cancelled>>

cacheVars == <<cachePc, cacheOp, cachePrev, cacheIn, cacheAt, cacheOk, loaded, expired, auth>>

vars == <<pc, now, tokenFile, pendingText, prevFile, exitCode, errorMessage, warned,
          succeeded, storeCalls, saved, cancelled,
          expiresInMs, initialInterval, startTime, pollInterval, dots, attempts,
          lastAttemptAt, nPending, nSlowDown, latencySeen, lastResponse, pollResult, token,
          cachePc, cacheOp, cachePrev, cacheIn, cacheAt, cacheOk, loaded, expired, auth,
          user_code, pendingCodes, deviceOp, httpStatus, formattedCode,
          route, userCode, approvalStatus, approvalError, approvalUser, checkAuth,
          inFlight, approvesSent, deniesSent>>

deviceVars == <<user_code, pendingCodes, deviceOp, httpStatus, formattedCode>>

pageVars == <<route, userCode, approvalStatus, approvalError, approvalUser, checkAuth,
              inFlight, approvesSent, deniesSent>>

\* the server routes and the pages of the browser
webVars == <<deviceVars, pageVars>>

pollVars == <<expiresInMs, initialInterval, startTime, pollInterval, dots, attempts,
              lastAttemptAt, nPending, nSlowDown, latencySeen, lastResponse, pollResult, token>>

\* no command has used the credential cache yet
CacheIdle ==
    /\ cachePc = "idle"
    /\ cacheOp = "none"
    /\ cachePrev = "none"
    /\ cacheIn = NoResponse
    /\ cacheAt = 0
    /\ cacheOk = FALSE
    /\ loaded = NullToken
    /\ expired = FALSE
    /\ auth = NoAuth

\* no device route or page has been used yet
DeviceIdle ==
    /\ user_code = Undefined
    /\ pendingCodes = {}
    /\ deviceOp = "none"
    /\ httpStatus = 0
    /\ formattedCode = Undefined

\* the browser has not opened the approval page; approve/page.tsx lines
\* 14-16 give the initial values of status, error and user
PageIdle ==
    /\ route = "none"
    /\ userCode = EmptyString
    /\ approvalStatus = "loading"
    /\ approvalError = Null
    /\ approvalUser = Null
    /\ checkAuth = "none"
    /\ inFlight = [approve |-> 0, deny |-> 0]
    /\ approvesSent = 0
    /\ deniesSent = 0

Init ==
    /\ pc = "login"
    /\ now = 0
    /\ tokenFile \in InitialFiles
    /\ pendingText = Absent
    /\ prevFile = Absent
    /\ exitCode = Running
    /\ errorMessage = Undefined
    /\ warned = FALSE
    /\ succeeded = FALSE
    /\ storeCalls = 0
    /\ saved = FALSE
    /\ cancelled = FALSE
    /\ expiresInMs = 0
    /\ initialInterval = 0
    /\ startTime = 0
    /\ pollInterval = 0
    /\ dots = 0
    /\ attempts = 0
    /\ lastAttemptAt = 0
    /\ nPending = 0
    /\ nSlowDown = 0
    /\ latencySeen = FALSE
    /\ lastResponse = NoResponse
    /\ pollResult = "none"
    /\ token = NoResponse
    /\ CacheIdle
    /\ DeviceIdle
    /\ PageIdle

\* ------------------------------------------------------- credential cache
\* what a try block leaves behind when a call in it threw
Thrown == [threw |-> TRUE]

\* line 63: fs.readFile throws when there is no file
readFile(file) == IF file = Absent THEN Thrown ELSE file

\* lines 62-64: the try block of getStoredToken; JSON.parse throws on the
\* empty text
tryGetStoredToken(file) ==
    LET data == readFile(file)
    IN IF data = Thrown \/ data = EmptyFile THEN Thrown ELSE JSONParse(data)

\* a catch block that lets the error through
catchGetStoredTokenRethrows(result) == result

\* lines 65-68: the catch block of getStoredToken
catchGetStoredToken(result) == IF result = Thrown THEN NullToken ELSE result

\* lines 61-69: a file that is missing or does not parse reads as null
getStoredToken(file) == catchGetStoredToken(tryGetStoredToken(file))

\* an isTokenExpired without the margin of five minutes
isTokenExpiredWithoutMargin(file, t) ==
    LET stored == getStoredToken(file)
    IN IF stored = NullToken \/ Field(stored, "expiresAt") \in {Null, Undefined}
       THEN TRUE
       ELSE getTime(Field(stored, "expiresAt")) - t < 0

\* lines 126-137, at time t
isTokenExpired(file, t) ==
    LET stored == getStoredToken(file)
    IN IF stored = NullToken \/ Field(stored, "expiresAt") \in {Null, Undefined}
       THEN TRUE
       ELSE getTime(Field(stored, "expiresAt")) - t < ExpiryMarginMs

\* lines 113-115: the try block of clearStoredToken; fs.unlink throws when
\* there is no file or when it cannot remove the file
tryClearStoredToken(file, unlinked) ==
    IF unlinked /\ file # Absent
    THEN [file |-> Absent, result |-> "true"]
    ELSE [file |-> file, result |-> "throw"]

\* lines 116-119: the catch block of clearStoredToken
catchClearStoredToken(outcome) ==
    IF outcome.result = "throw" THEN [outcome EXCEPT !.result = "false"] ELSE outcome

\* lines 112-120: the file that clearStoredToken leaves and what it returns
clearOutcome(file, unlinked) == catchClearStoredToken(tryClearStoredToken(file, unlinked))

\* lines 112-120: the file after fs.unlink, which may fail and leave it
clearStoredToken(file, unlinked) == clearOutcome(file, unlinked).file

\* a storeToken that adds expires_in to the clock as if it were milliseconds
storeTokenKeepsSeconds(response, t) ==
    TokenData(response.access_token,
              response.extras.refresh_token,
              Or(response.extras.token_type, <<"Bearer">>),
              response.extras.scope,
              IF response.expires_in # NoNumber /\ response.expires_in # 0
              THEN toISOString(t + response.expires_in)
              ELSE Null,
              toISOString(t),
              response.extras.user)

\* lines 87-97: the TokenData that storeToken builds for a token response
\* at time t
storeToken(response, t) ==
    TokenData(response.access_token,
              response.extras.refresh_token,
              Or(response.extras.token_type, <<"Bearer">>),
              response.extras.scope,
              IF response.expires_in # NoNumber /\ response.expires_in # 0
              THEN toISOString(t + response.expires_in * 1000)
              ELSE Null,
              toISOString(t),
              response.extras.user)

\* line 99: fs.writeFile opens the file with flag w, which empties it, and
\* then writes the text
\* lines 147-149 and 154-156: what requireAuth prints before exit(1)
NotAuthenticatedMessage == <<"Not", "authenticated", "Please", "run", "botbyte", "login", "first">>
SessionExpiredMessage == <<"Your", "session", "has", "expired", "Please", "login", "again">>

requireAuthIgnoresExpiry(file, t) ==
    LET stored == getStoredToken(file)
    IN IF stored = NullToken
       THEN AuthResult("exit", NullToken, NotAuthenticatedMessage, 1)
       ELSE AuthResult("return", stored, Undefined, Running)

\* lines 143-162: requireAuth returns the token, or prints and exits with 1
requireAuth(file, t) ==
    LET stored == getStoredToken(file)
    IN IF stored = NullToken
       THEN AuthResult("exit", NullToken, NotAuthenticatedMessage, 1)
       ELSE IF isTokenExpired(file, t)
            THEN AuthResult("exit", NullToken, SessionExpiredMessage, 1)
            ELSE AuthResult("return", stored, Undefined, Running)

openForWrite(file) == EmptyFile
writeText(file, text) == text

\* process.exit(code), or the end of loginAction with code 0
Exit(code, message) ==
    /\ pc' = "exited"
    /\ exitCode' = code
    /\ errorMessage' = message

\* ------------------------------------------------------------- loginAction
\* lines 181-206: an existing unexpired credential is offered for reuse
LoginStart ==
    /\ pc = "login"
    /\ LET existingToken == getStoredToken(tokenFile)
           expired_ == isTokenExpired(tokenFile, now)
       IN IF existingToken # NullToken /\ ~expired_
          THEN \E shouldReLogin \in {"cancel", "no", "yes"} :
                  IF shouldReLogin # "yes"
                  THEN Exit(0, Undefined) /\ UNCHANGED <<tokenFile, prevFile>>
                  ELSE /\ \E unlinked \in BOOLEAN :
                             tokenFile' = clearStoredToken(tokenFile, unlinked)
                       /\ prevFile' = tokenFile
                       /\ pc' = "register"
                       /\ UNCHANGED <<exitCode, errorMessage>>
          ELSE /\ pc' = "register"
               /\ UNCHANGED <<tokenFile, prevFile, exitCode, errorMessage>>
    /\ UNCHANGED <<now, pendingText, warned, succeeded, storeCalls, saved, cancelled>>
    /\ UNCHANGED pollVars
    /\ UNCHANGED cacheVars
    /\ UNCHANGED webVars

\* lines 211-227 and 347-367: the registration request throws or is answered
\* with an error status; loginAction shows the message and exits with 1
RegisterFails ==
    /\ pc = "register"
    /\ \/ \E m \in RegistrationErrors : Exit(1, m)
       \/ \E errorText \in ErrorTexts : Exit(1, InitiateFailedPrefix \o errorText)
    /\ UNCHANGED <<now, warned, succeeded, storeCalls, saved, cancelled>>
    /\ UNCHANGED fileVars
    /\ UNCHANGED pollVars
    /\ UNCHANGED cacheVars
    /\ UNCHANGED webVars

\* lines 255-263: the open-browser prompt is cancelled
RegisterCancelled ==
    /\ pc = "register"
    /\ Exit(0, Undefined)
    /\ UNCHANGED <<now, warned, succeeded, storeCalls, saved, cancelled>>
    /\ UNCHANGED fileVars
    /\ UNCHANGED pollVars
    /\ UNCHANGED cacheVars
    /\ UNCHANGED webVars

\* lines 211-288 and 387-390: the registration succeeds and pollForToken
\* starts; a registration that advertises more than MaxExpiresIn, the
\* default of 900 s among them, is outside the model
Register ==
    /\ pc = "register"
    /\ \E expires_in_field \in ExpiresInInputs, interval_field \in IntervalInputs :
          LET expires_in == IF expires_in_field = NoNumber THEN DefaultExpiresIn ELSE expires_in_field
              interval == IF interval_field = NoNumber THEN DefaultInterval ELSE interval_field
          IN /\ expires_in <= MaxExpiresIn
             /\ expiresInMs' = expires_in * 1000
             /\ initialInterval' = interval
             /\ pollInterval' = interval * 1000
    /\ startTime' = now
    /\ dots' = 0
    /\ pc' = "poll"
    /\ UNCHANGED <<now, exitCode, errorMessage, warned, succeeded, storeCalls, saved, cancelled,
                   attempts, lastAttemptAt, nPending, nSlowDown, latencySeen, lastResponse,
                   pollResult, token>>
    /\ UNCHANGED fileVars
    /\ UNCHANGED cacheVars
    /\ UNCHANGED webVars

\* ------------------------------------------------------------ pollForToken
\* what one pass through the try block does: return data, go round the loop
\* again (adding inc to pollInterval), or throw an Error with a message
Return(data) == [op |-> "return", inc |-> 0, message |-> Undefined, data |-> data]
Continue(inc) == [op |-> "continue", inc |-> inc, message |-> Undefined, data |-> NoResponse]
Throw(message) == [op |-> "throw", inc |-> 0, message |-> message, data |-> NoResponse]

\* lines 416-420: the response is ok
OkBranch(r) ==
    IF ~r.parsable
    THEN Throw(r.message)
    ELSE IF Truthy(r.access_token) THEN Return(r) ELSE Continue(0)

\* the switch whose slow_down case only breaks
SwitchErrorKeepsInterval(error, error_description) ==
    CASE error = AuthorizationPending -> Continue(0)
      [] error = SlowDown -> Continue(0)
      [] error = AccessDenied -> Throw(DeniedMessage)
      [] error = ExpiredToken -> Throw(ExpiredMessage)
      [] OTHER ->
            IF Truthy(error) /\ error # AuthorizationPending
            THEN Throw(Or(error_description, Or(error, AuthorizationFailedMessage)))
            ELSE Continue(0)

\* the switch without the break of its first case: authorization_pending
\* falls through to slow_down
SwitchErrorFallThrough(error, error_description) ==
    CASE error = AuthorizationPending -> Continue(SlowDownStepMs)
      [] error = SlowDown -> Continue(SlowDownStepMs)
      [] error = AccessDenied -> Throw(DeniedMessage)
      [] error = ExpiredToken -> Throw(ExpiredMessage)
      [] OTHER ->
            IF Truthy(error) /\ error # AuthorizationPending
            THEN Throw(Or(error_description, Or(error, AuthorizationFailedMessage)))
            ELSE Continue(0)

\* lines 423-440: the switch on error.error
SwitchError(error, error_description) ==
    CASE error = AuthorizationPending -> Continue(0)
      [] error = SlowDown -> Continue(SlowDownStepMs)
      [] error = AccessDenied -> Throw(DeniedMessage)
      [] error = ExpiredToken -> Throw(ExpiredMessage)
      [] OTHER ->
            IF Truthy(error) /\ error # AuthorizationPending
            THEN Throw(Or(error_description, Or(error, AuthorizationFailedMessage)))
            ELSE Continue(0)

\* lines 421-441: the response is not ok; an unparsable body reads as {}
ErrorBranch(r) ==
    IF r.parsable
    THEN SwitchError(r.error, r.error_description)
    ELSE SwitchError(Undefined, Undefined)

\* lines 402-441: the try block
TryBlock(r) ==
    CASE r.kind = "throw" -> Throw(r.message)
      [] r.kind = "ok" -> OkBranch(r)
      [] OTHER -> ErrorBranch(r)

\* a catch block that rethrows nothing
CatchBlockSwallowsAll(outcome) ==
    IF outcome.op = "throw"
    THEN Continue(0)
    ELSE outcome

\* lines 442-449: the catch block rethrows an Error unless its message
\* includes "pending"
CatchBlock(outcome) ==
    IF outcome.op = "throw" /\ Includes(outcome.message, "pending")
    THEN Continue(0)
    ELSE outcome

\* one exchange attempt, lines 402-449
Attempt(r) == CatchBlock(TryBlock(r))

\* a timer that fires at once
WakeTimeAtOnce(t, interval) == t

\* a wait that takes the interval for a number of seconds
WakeTimeInSeconds(t, interval) == t + interval \div 1000

\* line 393: when the timer of the wait fires
WakeTime(t, interval) == t + interval

\* lines 392-393: the deadline has not passed, the poller waits pollInterval
PollWait ==
    /\ pc = "poll"
    /\ now - startTime < expiresInMs
    /\ now' = WakeTime(now, pollInterval)
    /\ dots' = (dots + 1) % 4
    /\ pc' = "exchange"
    /\ UNCHANGED <<exitCode, errorMessage, warned, succeeded, storeCalls, saved, cancelled,
                   expiresInMs, initialInterval, startTime, pollInterval, attempts,
                   lastAttemptAt, nPending, nSlowDown, latencySeen, lastResponse,
                   pollResult, token>>
    /\ UNCHANGED fileVars
    /\ UNCHANGED cacheVars
    /\ UNCHANGED webVars

\* a loginAction that stores whatever pollForToken returned, null included
PollTimeoutThenStore ==
    /\ pc = "poll"
    /\ ~(now - startTime < expiresInMs)
    /\ pollResult' = "null"
    /\ pc' = "finish"
    /\ UNCHANGED <<now, exitCode, errorMessage, warned, succeeded, storeCalls, saved, cancelled,
                   expiresInMs, initialInterval, startTime, pollInterval, dots, attempts,
                   lastAttemptAt, nPending, nSlowDown, latencySeen, lastResponse, token>>
    /\ UNCHANGED fileVars
    /\ UNCHANGED cacheVars
    /\ UNCHANGED webVars

\* lines 392, 452 and 290-292: the deadline has passed, pollForToken returns
\* null, and loginAction ends without a message
PollTimeout ==
    /\ pc = "poll"
    /\ ~(now - startTime < expiresInMs)
    /\ pollResult' = "null"
    /\ Exit(0, Undefined)
    /\ UNCHANGED <<now, warned, succeeded, storeCalls, saved, cancelled,
                   expiresInMs, initialInterval, startTime, pollInterval, dots, attempts,
                   lastAttemptAt, nPending, nSlowDown, latencySeen, lastResponse, token>>
    /\ UNCHANGED fileVars
    /\ UNCHANGED cacheVars
    /\ UNCHANGED webVars

\* lines 402-449 and 347-367: one exchange request and what follows from its
\* answer; an Error that leaves pollForToken ends loginAction with exit(1)
PollExchange ==
    /\ pc = "exchange"
    /\ \E r \in TokenEndpointResponses, latency \in LatenciesMs :
          LET outcome == Attempt(r)
          IN /\ attempts' = attempts + 1
             /\ lastAttemptAt' = now
             /\ now' = now + latency
             /\ latencySeen' = (latencySeen \/ latency > 0)
             /\ lastResponse' = r
             /\ nPending' = nPending +
                   (IF r.kind = "notok" /\ r.parsable /\ r.error = AuthorizationPending THEN 1 ELSE 0)
             /\ nSlowDown' = nSlowDown +
                   (IF r.kind = "notok" /\ r.parsable /\ r.error = SlowDown THEN 1 ELSE 0)
             /\ pollInterval' = pollInterval + outcome.inc
             /\ CASE outcome.op = "return" ->
                        /\ pollResult' = "token"
                        /\ token' = outcome.data
                        /\ pc' = "finish"
                        /\ UNCHANGED <<exitCode, errorMessage>>
                  [] outcome.op = "throw" ->
                        /\ pollResult' = "thrown"
                        /\ token' = token
                        /\ Exit(1, outcome.message)
                  [] OTHER ->
                        /\ pc' = "poll"
                        /\ UNCHANGED <<pollResult, token, exitCode, errorMessage>>
    /\ UNCHANGED <<warned, succeeded, storeCalls, saved, cancelled,
                   expiresInMs, initialInterval, startTime, dots>>
    /\ UNCHANGED fileVars
    /\ UNCHANGED cacheVars
    /\ UNCHANGED webVars

\* how long the fetch of the runtime waits for the headers of a response
\* before it rejects
HeadersTimeoutMs == 300 * 1000

\* lines 403-414 and 442-449: the exchange request is never answered; the
\* fetch has no signal and no timeout of its own, pollForToken awaits it
\* until the runtime rejects it, and the catch block rethrows the TypeError
PollHang ==
    /\ pc = "exchange"
    /\ LET r == Response("throw", FALSE, <<"fetch", "failed">>, Undefined, NoNumber, Undefined, Undefined)
           outcome == Attempt(r)
       IN /\ attempts' = attempts + 1
          /\ lastAttemptAt' = now
          /\ now' = now + HeadersTimeoutMs
          /\ latencySeen' = TRUE
          /\ lastResponse' = r
          /\ pollInterval' = pollInterval + outcome.inc
          /\ IF outcome.op = "throw"
             THEN /\ pollResult' = "thrown"
                  /\ Exit(1, outcome.message)
             ELSE /\ pc' = "poll"
                  /\ UNCHANGED <<pollResult, exitCode, errorMessage>>
    /\ UNCHANGED <<warned, succeeded, storeCalls, saved, cancelled,
                   expiresInMs, initialInterval, startTime, dots, nPending, nSlowDown, token>>
    /\ UNCHANGED fileVars
    /\ UNCHANGED cacheVars
    /\ UNCHANGED webVars

\* lines 290-294, 84-99: pollForToken returned a token and storeToken builds
\* the TokenData; fs.writeFile opens the file, which empties it, or fails to
\* open it, and storeToken returns false
StoreOpen ==
    /\ pc = "finish"
    /\ storeCalls' = storeCalls + 1
    /\ prevFile' = tokenFile
    /\ \E opened \in BOOLEAN :
          IF opened
          THEN /\ tokenFile' = openForWrite(tokenFile)
               /\ pendingText' = JSONStringify(storeToken(token, now))
               /\ pc' = "writing"
               /\ UNCHANGED saved
          ELSE /\ saved' = FALSE
               /\ pc' = "stored"
               /\ UNCHANGED <<tokenFile, pendingText>>
    /\ UNCHANGED <<now, exitCode, errorMessage, warned, succeeded, cancelled>>
    /\ UNCHANGED pollVars
    /\ UNCHANGED cacheVars
    /\ UNCHANGED webVars

\* lines 99-105: fs.writeFile writes the text and storeToken returns true,
\* or the write fails and storeToken returns false
StoreWrite ==
    /\ pc = "writing"
    /\ \E written \in BOOLEAN :
          /\ tokenFile' = IF written THEN writeText(tokenFile, pendingText) ELSE tokenFile
          /\ saved' = written
    /\ pendingText' = Absent
    /\ pc' = "stored"
    /\ UNCHANGED <<now, prevFile, exitCode, errorMessage, warned, succeeded, storeCalls, cancelled>>
    /\ UNCHANGED pollVars
    /\ UNCHANGED cacheVars
    /\ UNCHANGED webVars

\* a loginAction that treats a failed write as a failed login
AfterStoreFailureIsFatal(wasSaved) ==
    [warned |-> ~wasSaved, succeeded |-> wasSaved,
     exitCode |-> IF wasSaved THEN 0 ELSE 1,
     message |-> IF wasSaved THEN Undefined ELSE <<"Failed", "to", "store", "token">>]

\* lines 296-346: what loginAction shows and how it ends when storeToken
\* returned wasSaved
AfterStore(wasSaved) == [warned |-> ~wasSaved, succeeded |-> TRUE, exitCode |-> 0, message |-> Undefined]

\* lines 296-346: a failed write only warns, and loginAction ends
Finish ==
    /\ pc = "stored"
    /\ LET end == AfterStore(saved)
       IN /\ warned' = end.warned
          /\ succeeded' = end.succeeded
          /\ Exit(end.exitCode, end.message)
    /\ UNCHANGED <<now, storeCalls, saved, cancelled>>
    /\ UNCHANGED fileVars
    /\ UNCHANGED pollVars
    /\ UNCHANGED cacheVars
    /\ UNCHANGED webVars

\* the exit code of an interrupted process: the prompt library exits with 0
\* on Ctrl-C while its spinner runs, a SIGINT without a handler ends the
\* process with 128 + 2
InterruptExitCodes == {0, 130}

\* the user interrupts login while it polls or stores; loginAction installs
\* no handler, the process ends where it is
Interrupt ==
    /\ pc \in {"poll", "exchange", "finish", "writing", "stored"}
    /\ cancelled' = TRUE
    /\ \E code \in InterruptExitCodes : Exit(code, errorMessage)
    /\ UNCHANGED <<now, warned, succeeded, storeCalls, saved>>
    /\ UNCHANGED fileVars
    /\ UNCHANGED pollVars
    /\ UNCHANGED cacheVars
    /\ UNCHANGED webVars

Next ==
    \/ LoginStart
    \/ RegisterFails
    \/ RegisterCancelled
    \/ Register
    \/ PollWait
    \/ PollTimeout
    \/ PollExchange
    \/ PollHang
    \/ StoreOpen
    \/ StoreWrite
    \/ Finish
    \/ Interrupt

Spec == Init /\ [][Next]_vars

\* ------------------------------------------- commands on the credential cache
\* The commands of the CLI use the credential cache through storeToken,
\* getStoredToken, clearStoredToken, isTokenExpired and requireAuth. Each is
\* one step, except storeToken, whose fs.writeFile empties the file and
\* writes it in two steps, between which the process may be interrupted and
\* another process may read the file.

\* the time between two commands
TickMs == 4 * 60 * 1000

\* the lifetimes, in seconds, of the token responses that are stored
StoreLifetimes == {NoNumber, 0, 60, 300, 600}
StoreInputs ==
    {Response("ok", TRUE, Undefined, <<"tok1">>, e, Undefined, Undefined) : e \in StoreLifetimes}
    \cup {[Response("ok", TRUE, Undefined, <<"tok2">>, e, Undefined, Undefined) EXCEPT !.extras = AllExtras] :
              e \in {NoNumber, 600}}

\* the commands that only read the cache
QueryOps == {"load", "expired", "auth", "whoami", "wakeup", "chat"}

\* time passes between two commands; what a command returned before is no
\* longer the answer for the new time
Tick ==
    /\ cachePc = "idle"
    /\ now < MaxTicks * TickMs
    /\ now' = now + TickMs
    /\ cacheOp' = IF cacheOp \in QueryOps THEN "none" ELSE cacheOp
    /\ loaded' = NullToken
    /\ expired' = FALSE
    /\ auth' = NoAuth
    /\ UNCHANGED <<cachePc, cachePrev, cacheIn, cacheAt, cacheOk>>
    /\ UNCHANGED fileVars
    /\ UNCHANGED loginVars
    /\ UNCHANGED pollVars
    /\ UNCHANGED webVars

\* lines 76-99: storeToken builds the TokenData and fs.writeFile opens the
\* file, which empties it, or fails to open it
CacheStoreOpen ==
    /\ cachePc = "idle"
    /\ prevFile' = tokenFile
    /\ cacheAt' = now
    /\ cachePrev' = cacheOp
    /\ \E r \in StoreInputs, opened \in BOOLEAN :
          /\ cacheIn' = r
          /\ IF opened
             THEN /\ tokenFile' = openForWrite(tokenFile)
                  /\ pendingText' = JSONStringify(storeToken(r, now))
                  /\ cachePc' = "writing"
                  /\ cacheOp' = "open"
                  /\ UNCHANGED cacheOk
             ELSE /\ cacheOk' = FALSE
                  /\ cacheOp' = "store"
                  /\ UNCHANGED <<tokenFile, pendingText, cachePc>>
    /\ loaded' = NullToken
    /\ expired' = FALSE
    /\ auth' = NoAuth
    /\ UNCHANGED now
    /\ UNCHANGED loginVars
    /\ UNCHANGED pollVars
    /\ UNCHANGED webVars

\* lines 99-105: the text is written and storeToken returns true, or the
\* write fails and storeToken returns false
CacheStoreWrite ==
    /\ cachePc = "writing"
    /\ \E written \in BOOLEAN :
          /\ tokenFile' = IF written THEN writeText(tokenFile, pendingText) ELSE tokenFile
          /\ cacheOk' = written
    /\ pendingText' = Absent
    /\ cachePc' = "idle"
    /\ cacheOp' = "store"
    /\ loaded' = NullToken
    /\ expired' = FALSE
    /\ auth' = NoAuth
    /\ UNCHANGED <<now, prevFile, cachePrev, cacheIn, cacheAt>>
    /\ UNCHANGED loginVars
    /\ UNCHANGED pollVars
    /\ UNCHANGED webVars

\* the process is interrupted between the open and the write
CacheInterrupt ==
    /\ cachePc = "writing"
    /\ pendingText' = Absent
    /\ cachePc' = "idle"
    /\ cacheOp' = "interrupted"
    /\ cacheOk' = FALSE
    /\ loaded' = NullToken
    /\ expired' = FALSE
    /\ auth' = NoAuth
    /\ UNCHANGED <<now, tokenFile, prevFile, cachePrev, cacheIn, cacheAt>>
    /\ UNCHANGED loginVars
    /\ UNCHANGED pollVars
    /\ UNCHANGED webVars

\* lines 61-69: getStoredToken, of this process or, while a storeToken is
\* between its open and its write, of another one
CacheLoad ==
    /\ cachePc \in {"idle", "writing"}
    /\ loaded' = getStoredToken(tokenFile)
    /\ cachePrev' = cacheOp
    /\ cacheOp' = IF getStoredToken(tokenFile) = Thrown THEN "threw" ELSE "load"
    /\ expired' = FALSE
    /\ auth' = NoAuth
    /\ UNCHANGED <<now, cachePc, cacheIn, cacheAt, cacheOk>>
    /\ UNCHANGED fileVars
    /\ UNCHANGED loginVars
    /\ UNCHANGED pollVars
    /\ UNCHANGED webVars

\* lines 112-120: clearStoredToken returns true when fs.unlink removed the
\* file and false when it threw, which it does when there is no file
CacheClear ==
    /\ cachePc = "idle"
    /\ prevFile' = tokenFile
    /\ \E unlinked \in BOOLEAN :
          LET outcome == clearOutcome(tokenFile, unlinked)
          IN /\ tokenFile' = outcome.file
             /\ cacheOk' = (outcome.result = "true")
             /\ cacheOp' = IF outcome.result = "throw" THEN "threw" ELSE "clear"
    /\ cachePrev' = cacheOp
    /\ loaded' = NullToken
    /\ expired' = FALSE
    /\ auth' = NoAuth
    /\ UNCHANGED <<now, pendingText, cachePc, cacheIn, cacheAt>>
    /\ UNCHANGED loginVars
    /\ UNCHANGED pollVars
    /\ UNCHANGED webVars

\* lines 126-137: isTokenExpired
CacheIsExpired ==
    /\ cachePc = "idle"
    /\ expired' = isTokenExpired(tokenFile, now)
    /\ cachePrev' = cacheOp
    /\ cacheOp' = "expired"
    /\ loaded' = NullToken
    /\ auth' = NoAuth
    /\ UNCHANGED <<now, cachePc, cacheIn, cacheAt, cacheOk>>
    /\ UNCHANGED fileVars
    /\ UNCHANGED loginVars
    /\ UNCHANGED pollVars
    /\ UNCHANGED webVars

\* lines 143-162: requireAuth, as whoami and the other commands call it
CacheRequireAuth ==
    /\ cachePc = "idle"
    /\ auth' = requireAuth(tokenFile, now)
    /\ cachePrev' = cacheOp
    /\ cacheOp' = "auth"
    /\ loaded' = NullToken
    /\ expired' = FALSE
    /\ UNCHANGED <<now, cachePc, cacheIn, cacheAt, cacheOk>>
    /\ UNCHANGED fileVars
    /\ UNCHANGED loginVars
    /\ UNCHANGED pollVars
    /\ UNCHANGED webVars


\* ----------------------------------- the commands that need a logged-in user
MustBeLoggedInMessage ==
    <<"You", "must", "be", "logged", "in", "to", "wake", "up", "the", "AI", "service">>
InvalidSessionMessage == <<"Invalid", "session", "Please", "log", "in", "again">>
UserNotFoundMessage == <<"User", "not", "found", "Please", "login", "again">>
NoAccessTokenMessage == <<"No", "access", "token", "found", "Please", "login">>
CouldNotFetchMessage == <<"Could", "not", "fetch", "user", "information">>
FailedToFetchMessage == <<"Failed", "to", "fetch", "user", "info:">>

\* how prisma.user.findFirst ends for a session token: it finds the user of
\* a session with that token, finds none, or throws
Lookups == {"found", "none", "throws"}

\* wake-up.ts lines 11-41: wakeUpAction reads the stored credential and
\* looks its accessToken up; auth.token is the credential the look-up used
wakeUpAction(file, lookup) ==
    LET stored == getStoredToken(file)
    IN IF stored = NullToken
       THEN AuthResult("exit", NullToken, MustBeLoggedInMessage, 1)
       ELSE IF lookup = "throws"
            THEN AuthResult("throw", stored, Undefined, Running)
            ELSE IF lookup = "none"
                 THEN AuthResult("exit", stored, InvalidSessionMessage, 1)
                 ELSE AuthResult("user", stored, Undefined, Running)

\* chat-with-ai.ts lines 101-128, and the same function of the tool and the
\* agent mode: getUserFromToken
getUserFromToken(file, lookup) ==
    LET stored == getStoredToken(file)
    IN IF stored = NullToken \/ ~Truthy(Field(stored, "accessToken"))
       THEN AuthResult("throw", NullToken, NotAuthenticatedMessage, Running)
       ELSE IF lookup = "throws"
            THEN AuthResult("throw", stored, Undefined, Running)
            ELSE IF lookup = "none"
                 THEN AuthResult("throw", stored, UserNotFoundMessage, Running)
                 ELSE AuthResult("user", stored, Undefined, Running)

\* login.ts lines 493-566: whoamiAction shows the user of the session, or
\* the user cached in the credential when the look-up finds none or throws
whoamiAction(file, t, lookup) ==
    LET required == requireAuth(file, t)
        stored == required.token
    IN IF required.outcome = "exit"
       THEN required
       ELSE IF ~Truthy(Field(stored, "accessToken"))
            THEN AuthResult("exit", NullToken, NoAccessTokenMessage, 1)
            ELSE IF lookup = "found"
                 THEN AuthResult("user", stored, Undefined, Running)
                 ELSE IF Truthy(Field(stored, "user"))
                      THEN AuthResult("cached", stored, Undefined, Running)
                      ELSE AuthResult("nouser", stored,
                                      IF lookup = "none" THEN CouldNotFetchMessage
                                                         ELSE FailedToFetchMessage,
                                      Running)

\* botbyte whoami
CacheWhoami ==
    /\ cachePc = "idle"
    /\ \E lookup \in Lookups : auth' = whoamiAction(tokenFile, now, lookup)
    /\ cachePrev' = cacheOp
    /\ cacheOp' = "whoami"
    /\ loaded' = NullToken
    /\ expired' = FALSE
    /\ UNCHANGED <<now, cachePc, cacheIn, cacheAt, cacheOk>>
    /\ UNCHANGED fileVars
    /\ UNCHANGED loginVars
    /\ UNCHANGED pollVars
    /\ UNCHANGED webVars

\* botbyte wakeup, up to the greeting
CacheWakeUp ==
    /\ cachePc = "idle"
    /\ \E lookup \in Lookups : auth' = wakeUpAction(tokenFile, lookup)
    /\ cachePrev' = cacheOp
    /\ cacheOp' = "wakeup"
    /\ loaded' = NullToken
    /\ expired' = FALSE
    /\ UNCHANGED <<now, cachePc, cacheIn, cacheAt, cacheOk>>
    /\ UNCHANGED fileVars
    /\ UNCHANGED loginVars
    /\ UNCHANGED pollVars
    /\ UNCHANGED webVars

\* the chat, tool or agent mode that wakeup starts resolves the user
CacheGetUserFromToken ==
    /\ cachePc = "idle"
    /\ cacheOp = "wakeup" /\ auth.outcome = "user"
    /\ \E lookup \in Lookups : auth' = getUserFromToken(tokenFile, lookup)
    /\ cachePrev' = cacheOp
    /\ cacheOp' = "chat"
    /\ loaded' = NullToken
    /\ expired' = FALSE
    /\ UNCHANGED <<now, cachePc, cacheIn, cacheAt, cacheOk>>
    /\ UNCHANGED fileVars
    /\ UNCHANGED loginVars
    /\ UNCHANGED pollVars
    /\ UNCHANGED webVars

CacheNext ==
    \/ Tick
    \/ CacheStoreOpen
    \/ CacheStoreWrite
    \/ CacheInterrupt
    \/ CacheLoad
    \/ CacheClear
    \/ CacheIsExpired
    \/ CacheRequireAuth
    \/ CacheWhoami
    \/ CacheWakeUp
    \/ CacheGetUserFromToken

CacheSpec == Init /\ [][CacheNext]_vars

\* ------------------------------------------------------------- user codes
\* A user code is a string, modelled as the sequence of its characters.

\* what String.prototype.trim removes at both ends
Whitespace == {" ", "\t"}

Lower == <<"a", "b", "c", "d">>
Upper == <<"A", "B", "C", "D">>
Digits == {"1", "2", "3", "4"}

\* the length the validator and the device page ask of a user code
UserCodeLength == 8

RECURSIVE trimStart(_)
trimStart(value) ==
    IF Len(value) > 0 /\ value[1] \in Whitespace
    THEN trimStart(SubSeq(value, 2, Len(value)))
    ELSE value

RECURSIVE trimEnd(_)
trimEnd(value) ==
    IF Len(value) > 0 /\ value[Len(value)] \in Whitespace
    THEN trimEnd(SubSeq(value, 1, Len(value) - 1))
    ELSE value

\* value.trim()
trim(value) == trimEnd(trimStart(value))

\* value.replace(/-/g, "")
replaceHyphens(value) == SelectSeq(value, LAMBDA c : c # "-")

\* value.toUpperCase()
toUpperCase(value) ==
    [i \in 1..Len(value) |->
        IF \E k \in 1..Len(Lower) : Lower[k] = value[i]
        THEN Upper[CHOOSE k \in 1..Len(Lower) : Lower[k] = value[i]]
        ELSE value[i]]

\* index.ts line 74, part_007 line 8 and page.tsx line 36
normalizeCode(value) == toUpperCase(replaceHyphens(trim(value)))

\* a query parameter that is given twice reaches the handler as an array
NotAString == <<"<array>">>

\* what is typed around a code, and the codes that are typed
Paddings == {<<>>, <<" ">>, <<"-", " ">>}
TypedCodes ==
    {<<>>,
     <<"a", "b", "1", "2", "c", "d", "3", "4">>,
     <<"A", "B", "1", "2", "-", "C", "D", "3", "4">>,
     <<"A", "B", "1", "2", "C", "D", "3">>,
     <<"A", "B", "1", "2", " ", "D", "3", "4">>,
     <<"A", "B", "1", "2", "C", "D", "3", "4", "1">>,
     <<"!", "!", "!", "!", "!", "!", "!", "!">>}
UserCodeInputs == {before \o typed \o after : before \in Paddings, typed \in TypedCodes, after \in Paddings}
QueryInputs == UserCodeInputs \cup {Undefined, NotAString}

\* the user codes of the requests that are pending and unexpired on the server
PendingSets == {{}, {<<"A", "B", "1", "2", "C", "D", "3", "4">>}}

Answer(status, code) == [status |-> status, code |-> code]

\* index.ts lines 65-90: GET /api/device
getApiDevice(query) ==
    IF query = Undefined \/ query = EmptyString \/ query = NotAString
    THEN Answer(400, Undefined)
    ELSE LET formatted == normalizeCode(query)
         IN IF Len(formatted) # UserCodeLength
            THEN Answer(400, Undefined)
            ELSE Answer(200, formatted)

\* part_004 lines 71-92: GET /device answers 200 with an error text when no
\* device page is configured, and redirects to the device page otherwise
getDevice(query, configured) ==
    IF ~configured
    THEN Answer(200, Undefined)
    ELSE IF query # Undefined /\ query # NotAString /\ Len(trim(query)) > 0
         THEN Answer(302, trim(query))
         ELSE Answer(302, Undefined)

\* GET /api/device, whatever requests the server holds
GetApiDevice ==
    /\ \E query \in QueryInputs, codes \in PendingSets :
          /\ user_code' = query
          /\ pendingCodes' = codes
          /\ httpStatus' = getApiDevice(query).status
          /\ formattedCode' = getApiDevice(query).code
    /\ deviceOp' = "api_device"
    /\ UNCHANGED <<now, fileVars, loginVars, pollVars, cacheVars>>
    /\ UNCHANGED pageVars

\* GET /device
GetDevice ==
    /\ \E query \in QueryInputs, codes \in PendingSets, configured \in BOOLEAN :
          /\ user_code' = query
          /\ pendingCodes' = codes
          /\ httpStatus' = getDevice(query, configured).status
          /\ formattedCode' = getDevice(query, configured).code
    /\ deviceOp' = "device"
    /\ UNCHANGED <<now, fileVars, loginVars, pollVars, cacheVars>>
    /\ UNCHANGED pageVars

\* part_007 lines 40-69: verifyCode sends the normalised code to the server
\* when it has 8 characters
VerifyCode ==
    /\ \E code \in UserCodeInputs, codes \in PendingSets :
          /\ user_code' = code
          /\ pendingCodes' = codes
          /\ formattedCode' =
                IF Len(normalizeCode(code)) # UserCodeLength THEN Undefined ELSE normalizeCode(code)
    /\ httpStatus' = 0
    /\ deviceOp' = "verifyCode"
    /\ UNCHANGED <<now, fileVars, loginVars, pollVars, cacheVars>>
    /\ UNCHANGED pageVars

\* page.tsx lines 26-53: handleVerify sends the normalised code to the server
\* unless the input is blank
HandleVerify ==
    /\ \E code \in UserCodeInputs, codes \in PendingSets :
          /\ user_code' = code
          /\ pendingCodes' = codes
          /\ formattedCode' = IF Len(trim(code)) = 0 THEN Undefined ELSE normalizeCode(code)
    /\ httpStatus' = 0
    /\ deviceOp' = "handleVerify"
    /\ UNCHANGED <<now, fileVars, loginVars, pollVars, cacheVars>>
    /\ UNCHANGED pageVars

DeviceNext ==
    \/ GetApiDevice
    \/ GetDevice
    \/ VerifyCode
    \/ HandleVerify

DeviceSpec == Init /\ [][DeviceNext]_vars

\* the timer of a wait fires and an exchange request is answered or fails:
\* every step of pollForToken that is enabled is taken in the end
FairSpec == Spec /\ WF_vars(PollWait) /\ WF_vars(PollTimeout) /\ WF_vars(PollExchange)


\* ------------------------------------------------- the device approval page
\* approve/page.tsx; the requests that one page may send in a behaviour
MaxRequests == 3

ApprovePath == "/device/approve"
SignInPath == "/sign-in"
DevicePath == "/device"
HomePath == "/"

\* searchParams.get("user_code") || ""
ApprovalCodes == {EmptyString, <<"ABCD1234">>}

\* how authClient.getSession ends: a session with a user, no user, or it
\* rejects
Sessions == {<<"user1">>, Null, Undefined}

FailedToApprove == <<"Failed", "to", "approve", "device">>
FailedToDeny == <<"Failed", "to", "deny", "device">>
FailedToApproveTryAgain == <<"Failed", "to", "approve", "device", "Please", "try", "again">>
FailedToDenyTryAgain == <<"Failed", "to", "deny", "device", "Please", "try", "again">>

\* how authClient.device.approve or deny ends: data, an error with or
\* without a description, a rejection with an Error or with another value
Described == <<"invalid", "or", "expired", "code">>
FetchFailed == <<"fetch", "failed">>
DeviceAnswers ==
    {[kind |-> "data", error_description |-> Undefined, message |-> Undefined],
     [kind |-> "error", error_description |-> Described, message |-> Undefined],
     [kind |-> "error", error_description |-> Undefined, message |-> Undefined],
     [kind |-> "rejects", error_description |-> Undefined, message |-> FetchFailed],
     [kind |-> "rejects", error_description |-> Undefined, message |-> Undefined]}

\* lines 85-241: what the component renders for a status
View(s) ==
    IF s = "loading" THEN "spinner"
    ELSE IF s = "success" THEN "success"
    ELSE IF s = "denied" THEN "denied"
    ELSE IF s = "error" THEN "error"
    ELSE "authorize"

\* buttons without the disabled attribute
ButtonsNeverDisabled(s) == View(s) = "authorize"

\* lines 210-232: the Deny and the Authorize button can be pressed
ButtonsEnabled(s) == View(s) = "authorize" /\ ~(s = "approving" \/ s = "denying")

\* lines 47-62 and 67-82: the status and the error after the answer
AfterAnswer(answer, done, failed, failedTryAgain) ==
    IF answer.kind = "data"
    THEN [status |-> done, error |-> Null]
    ELSE IF answer.kind = "error"
         THEN [status |-> "error",
               error |-> IF Truthy(answer.error_description)
                         THEN answer.error_description ELSE failed]
         ELSE [status |-> "error",
               error |-> IF answer.message # Undefined
                         THEN answer.message ELSE failedTryAgain]

\* the browser opens /device/approve and the effect of lines 18-43 runs:
\* with a user code it starts checkAuth, without one it goes to /device
OpenApprovalPage ==
    /\ route = "none"
    /\ \E code \in ApprovalCodes :
          /\ userCode' = code
          /\ IF Truthy(code)
             THEN route' = ApprovePath /\ checkAuth' = "pending"
             ELSE route' = DevicePath /\ checkAuth' = "none"
    /\ UNCHANGED <<approvalStatus, approvalError, approvalUser, inFlight,
                   approvesSent, deniesSent>>
    /\ UNCHANGED <<now, fileVars, loginVars, pollVars, cacheVars, deviceVars>>

\* lines 20-35: getSession is answered
CheckAuth ==
    /\ route = ApprovePath
    /\ checkAuth = "pending"
    /\ checkAuth' = "done"
    /\ \E session \in Sessions :
          IF session \in {Null, Undefined}
          THEN /\ route' = SignInPath
               /\ UNCHANGED <<approvalUser, approvalStatus>>
          ELSE /\ approvalUser' = session
               /\ approvalStatus' = "ready"
               /\ UNCHANGED route
    /\ UNCHANGED <<userCode, approvalError, inFlight, approvesSent, deniesSent>>
    /\ UNCHANGED <<now, fileVars, loginVars, pollVars, cacheVars, deviceVars>>

\* lines 45-52: the Authorize button is pressed and the request is sent
HandleApprove ==
    /\ route = ApprovePath
    /\ ButtonsEnabled(approvalStatus)
    /\ approvesSent + deniesSent < MaxRequests
    /\ approvalStatus' = "approving"
    /\ approvalError' = Null
    /\ inFlight' = [inFlight EXCEPT !.approve = @ + 1]
    /\ approvesSent' = approvesSent + 1
    /\ UNCHANGED <<route, userCode, approvalUser, checkAuth, deniesSent>>
    /\ UNCHANGED <<now, fileVars, loginVars, pollVars, cacheVars, deviceVars>>

\* lines 52-62: the approve request is answered
ApproveAnswered ==
    /\ route = ApprovePath
    /\ inFlight.approve > 0
    /\ inFlight' = [inFlight EXCEPT !.approve = @ - 1]
    /\ \E answer \in DeviceAnswers :
          LET after == AfterAnswer(answer, "success", FailedToApprove,
                                   FailedToApproveTryAgain)
          IN /\ approvalStatus' = after.status
             /\ approvalError' = IF after.status = "error" THEN after.error
                                                           ELSE approvalError
    /\ UNCHANGED <<route, userCode, approvalUser, checkAuth, approvesSent, deniesSent>>
    /\ UNCHANGED <<now, fileVars, loginVars, pollVars, cacheVars, deviceVars>>

\* lines 65-72: the Deny button is pressed and the request is sent
HandleDeny ==
    /\ route = ApprovePath
    /\ ButtonsEnabled(approvalStatus)
    /\ approvesSent + deniesSent < MaxRequests
    /\ approvalStatus' = "denying"
    /\ approvalError' = Null
    /\ inFlight' = [inFlight EXCEPT !.deny = @ + 1]
    /\ deniesSent' = deniesSent + 1
    /\ UNCHANGED <<route, userCode, approvalUser, checkAuth, approvesSent>>
    /\ UNCHANGED <<now, fileVars, loginVars, pollVars, cacheVars, deviceVars>>

\* lines 72-82: the deny request is answered
DenyAnswered ==
    /\ route = ApprovePath
    /\ inFlight.deny > 0
    /\ inFlight' = [inFlight EXCEPT !.deny = @ - 1]
    /\ \E answer \in DeviceAnswers :
          LET after == AfterAnswer(answer, "denied", FailedToDeny, FailedToDenyTryAgain)
          IN /\ approvalStatus' = after.status
             /\ approvalError' = IF after.status = "error" THEN after.error
                                                           ELSE approvalError
    /\ UNCHANGED <<route, userCode, approvalUser, checkAuth, approvesSent, deniesSent>>
    /\ UNCHANGED <<now, fileVars, loginVars, pollVars, cacheVars, deviceVars>>

\* lines 163-168: Try Again on the error view
TryAgain ==
    /\ route = ApprovePath
    /\ View(approvalStatus) = "error"
    /\ approvalStatus' = "ready"
    /\ UNCHANGED <<route, userCode, approvalError, approvalUser, checkAuth, inFlight,
                   approvesSent, deniesSent>>
    /\ UNCHANGED <<now, fileVars, loginVars, pollVars, cacheVars, deviceVars>>

\* lines 142-147: Return Home on the denied view
ReturnHome ==
    /\ route = ApprovePath
    /\ View(approvalStatus) = "denied"
    /\ route' = HomePath
    /\ UNCHANGED <<userCode, approvalStatus, approvalError, approvalUser, checkAuth,
                   inFlight, approvesSent, deniesSent>>
    /\ UNCHANGED <<now, fileVars, loginVars, pollVars, cacheVars, deviceVars>>

PageNext ==
    \/ OpenApprovalPage
    \/ CheckAuth
    \/ HandleApprove
    \/ ApproveAnswered
    \/ HandleDeny
    \/ DenyAnswered
    \/ TryAgain
    \/ ReturnHome

PageSpec == Init /\ [][PageNext]_vars

TypeOK ==
    /\ pc \in {"login", "register", "poll", "exchange", "finish", "writing", "stored", "exited"}
    /\ exitCode \in {Running, 0, 1} \cup InterruptExitCodes
    /\ pollResult \in {"none", "token", "null", "thrown"}
    /\ attempts \in Nat

\* ---------------------------------------------------------------- claims
\* the latest exchange request was answered with this error code
LastError(code) ==
    /\ attempts > 0
    /\ lastResponse.kind = "notok"
    /\ lastResponse.parsable
    /\ lastResponse.error = code

\* every answer so far was authorization_pending
OnlyPending == nPending = attempts

\* what C1 says of a single state
C1_StateOfPendingThenSuccess ==
    /\ (pollResult = "token" /\ nPending = attempts - 1) =>
          /\ token = lastResponse
          /\ Truthy(token.access_token)
          /\ pc \in {"finish", "writing", "stored", "exited"}
          /\ lastAttemptAt - startTime >= attempts * initialInterval * 1000
          /\ ~latencySeen => now - startTime = attempts * initialInterval * 1000
    /\ (pc = "poll" /\ OnlyPending /\ ~latencySeen) =>
          now - startTime = attempts * initialInterval * 1000
    /\ (pollResult = "null" /\ OnlyPending /\ ~latencySeen) =>
          attempts * initialInterval * 1000 >= expiresInMs

\* C1: when the first n exchange attempts are answered with
\* authorization_pending and attempt n+1 with a success carrying
\* access_token, the poller returns the credential of attempt n+1 after
\* exactly n+1 attempts and makes no attempt after it; attempt k is made k
\* intervals after the start, so that the poller has not given up before
\* attempt n+1 when (n+1)*I <= expires_in, and with immediate answers the
\* elapsed time at return is (n+1)*I.
C1_PendingThenSuccess ==
    /\ []C1_StateOfPendingThenSuccess
    /\ [][pollResult = "token" => attempts' = attempts]_vars

\* three pending answers and a success at interval 5 s: returned after 20 s
C1_Witness ==
    /\ pollResult = "token"
    /\ attempts = 4
    /\ nPending = 3
    /\ initialInterval = 5
    /\ now - startTime = 20000
    /\ token.access_token = <<"tok1">>

\* what loginAction leaves behind when it ended without storing a token
NothingStored ==
    /\ storeCalls = 0
    /\ tokenFile \in InitialFiles
    /\ ~succeeded

\* what C6 says of a single state
C6_StateOfDeniedOrExpired ==
    /\ LastError(AccessDenied) =>
          /\ pc = "exited" /\ pollResult = "thrown" /\ exitCode = 1
          /\ errorMessage = DeniedMessage
          /\ NothingStored
    /\ LastError(ExpiredToken) =>
          /\ pc = "exited" /\ pollResult = "thrown" /\ exitCode = 1
          /\ errorMessage = ExpiredMessage
          /\ NothingStored
    /\ errorMessage = DeniedMessage => LastError(AccessDenied)
    /\ errorMessage = ExpiredMessage => LastError(ExpiredToken)

\* C6: an access_denied answer stops the poller and ends login with the
\* denial message and exit code 1; an expired_token answer stops it with the
\* expiry message and exit code 1; no other failure of login shows either
\* message, no further attempt is made and no credential is stored.
C6_DeniedOrExpiredIsFatal ==
    /\ []C6_StateOfDeniedOrExpired
    /\ [][(LastError(AccessDenied) \/ LastError(ExpiredToken)) => attempts' = attempts]_vars

\* the request is denied before the first exchange attempt
C6_Witness ==
    /\ attempts = 1
    /\ LastError(AccessDenied)
    /\ exitCode = 1
    /\ errorMessage = DeniedMessage

\* C7: an exchange request that throws instead of returning a response does
\* not stop the poller and surfaces no error.
C7_NetworkFailureIsTransient ==
    (attempts > 0 /\ lastResponse.kind = "throw") =>
        /\ pollResult \in {"none", "null"}
        /\ errorMessage = Undefined
        /\ exitCode # 1

\* the answer carries an error code other than the four of the protocol
OtherErrorCode(r) ==
    /\ r.kind = "notok"
    /\ r.parsable
    /\ Truthy(r.error)
    /\ r.error \notin {AuthorizationPending, SlowDown, AccessDenied, ExpiredToken}

\* C8: an error answer whose code is none of authorization_pending,
\* slow_down, access_denied and expired_token stops the poller at that
\* attempt, and login fails with the description of the server, or with the
\* code when there is no description.
C8_OtherErrorIsFatal ==
    (attempts > 0 /\ OtherErrorCode(lastResponse)) =>
        /\ pc = "exited" /\ pollResult = "thrown" /\ exitCode = 1
        /\ errorMessage = Or(lastResponse.error_description, lastResponse.error)

\* a 2xx answer without access_token, or an answer whose body cannot be
\* parsed or carries no error code
ProtocolViolation(r) ==
    \/ r.kind = "ok" /\ (~r.parsable \/ ~Truthy(r.access_token))
    \/ r.kind = "notok" /\ (~r.parsable \/ ~Truthy(r.error))

\* C9: a protocol violation stops the poller at that attempt and login fails
\* with a diagnostic error.
C9_ProtocolViolationIsFatal ==
    (attempts > 0 /\ ProtocolViolation(lastResponse)) =>
        /\ pc = "exited" /\ pollResult = "thrown" /\ exitCode = 1
        /\ Truthy(errorMessage)

\* C10: every exchange attempt is made at an elapsed time, measured from the
\* start of polling, that does not exceed expires_in.
C10_NoAttemptAfterDeadline ==
    attempts > 0 => lastAttemptAt - startTime <= expiresInMs

\* C11: when the local deadline passes without a success, a denial or an
\* expiry answer, login reports a timeout with a message of its own, distinct
\* from the expired_token message, and exits with a non-zero code.
C11_TimeoutIsReported ==
    pollResult = "null" =>
        /\ pc = "exited"
        /\ exitCode \notin {Running, 0}
        /\ Truthy(errorMessage)
        /\ errorMessage # ExpiredMessage

\* what C12 says of a single state
C12_StateOfInterval ==
    pollInterval = initialInterval * 1000 + 5 * 1000 * nSlowDown

\* C12: at every point of a polling session the poll interval is the initial
\* interval plus 5 s for each slow_down answer received so far; every other
\* continuing answer leaves it as it is, and it never decreases.
C12_IntervalFollowsSlowDown ==
    /\ []C12_StateOfInterval
    /\ [][/\ pollInterval' >= pollInterval
          /\ nSlowDown' = nSlowDown + 1 => pollInterval' = pollInterval + 5 * 1000
          /\ (pc # "register" /\ nSlowDown' = nSlowDown) => pollInterval' = pollInterval]_vars

\* a pending answer and two slow_down answers later the poller waits 14 s
C12_Witness ==
    /\ pc = "exchange"
    /\ attempts = 3
    /\ nPending = 1
    /\ nSlowDown = 2
    /\ initialInterval = 4
    /\ pollInterval = 14000

\* C13: no exchange attempt is made earlier than the poll interval in force
\* after the previous answer, a slow_down increase included, counted from the
\* previous attempt; the first attempt is made no earlier than the initial
\* interval after polling started.
C13_NoAttemptBeforeInterval ==
    pc = "exchange" =>
        /\ attempts = 0 => now - startTime >= initialInterval * 1000
        /\ attempts > 0 =>
              /\ now - lastAttemptAt >= pollInterval
              /\ now - lastAttemptAt >= (initialInterval + 5 * nSlowDown) * 1000

\* the attempt after a slow_down answer is made 9 s after the one before
C13_Witness ==
    /\ pc = "exchange"
    /\ attempts = 1
    /\ nSlowDown = 1
    /\ initialInterval = 4
    /\ now - lastAttemptAt = 9000

\* what C14 says of a single state
C14_StateOfCancel ==
    cancelled =>
        /\ pc = "exited"
        /\ storeCalls = 0 => tokenFile # EmptyFile
        /\ storeCalls > 0 => tokenFile \in {prevFile, JSONStringify(storeToken(token, now))}

\* C14: an interrupt delivered while login waits, exchanges or stores the
\* credential stops polling with no further exchange attempt and leaves the
\* credential file as it was before or completely written, never partially
\* written.
C14_CancelLeavesFileWhole ==
    /\ []C14_StateOfCancel
    /\ [][cancelled => attempts' = attempts]_vars

\* what C20 says of a single state
C20_StateOfStoreFailure ==
    /\ (pc = "exited" /\ storeCalls > 0 /\ ~cancelled /\ ~saved) =>
          /\ warned
          /\ succeeded
          /\ exitCode = 0
          /\ errorMessage = Undefined
          /\ pollResult = "token"
          /\ storeCalls = 1
    /\ warned => (storeCalls = 1 /\ ~saved)

\* C20: when the poller has obtained a token and storeToken fails to write
\* the credential file, login still ends as a successful authentication,
\* with exit code 0 and without another attempt of the device flow, and shows
\* a warning that the token could not be saved.
C20_StoreFailureOnlyWarns ==
    /\ []C20_StateOfStoreFailure
    /\ [][storeCalls > 0 => (attempts' = attempts /\ storeCalls' = storeCalls)]_vars

\* the write failed after the file was opened, and login ended with a warning
C20_Witness ==
    /\ pc = "exited"
    /\ storeCalls = 1
    /\ ~saved
    /\ ~cancelled
    /\ warned
    /\ succeeded
    /\ exitCode = 0
    /\ tokenFile = EmptyFile

\* getStoredToken has just returned, and the command before it was a
\* storeToken that returned true
LoadedAfterStore ==
    /\ cachePc = "idle"
    /\ cacheOp = "load"
    /\ cachePrev = "store"
    /\ cacheOk

\* getStoredToken has just returned, and the command before it was a
\* clearStoredToken
LoadedAfterClear ==
    /\ cachePc = "idle"
    /\ cacheOp = "load"
    /\ cachePrev = "clear"

\* C15 as the specification states it: storeToken(c) followed by
\* getStoredToken() returns a value equal to c, and clearStoredToken()
\* followed by getStoredToken() returns null.
C15_RoundTrip ==
    /\ LoadedAfterStore => loaded = cacheIn
    /\ LoadedAfterClear => loaded = NullToken

\* C15: getStoredToken after a storeToken(c) that returned true at time t
\* returns, whatever was stored before, the TokenData made from c: its
\* accessToken, refreshToken, scope and user are those of c (a key that c
\* lacks is absent), tokenType is token_type of c or "Bearer", expiresAt is
\* the time t + expires_in seconds or null when c has no non-zero expires_in,
\* and createdAt is t; getStoredToken after a clearStoredToken that returned
\* true, or that found no file, returns null.
C15_StoredThenLoaded ==
    /\ LoadedAfterStore =>
          /\ loaded # NullToken
          /\ loaded.accessToken = cacheIn.access_token
          /\ Field(loaded, "refreshToken") = cacheIn.extras.refresh_token
          /\ loaded.tokenType =
                (IF cacheIn.extras.token_type = Undefined
                 THEN <<"Bearer">>
                 ELSE cacheIn.extras.token_type)
          /\ Field(loaded, "scope") = cacheIn.extras.scope
          /\ Field(loaded, "user") = cacheIn.extras.user
          /\ loaded.expiresAt =
                (IF cacheIn.expires_in \in {NoNumber, 0}
                 THEN Null
                 ELSE <<"iso", cacheAt + cacheIn.expires_in * 1000>>)
          /\ loaded.createdAt = <<"iso", cacheAt>>
    /\ (LoadedAfterClear /\ (cacheOk \/ prevFile = Absent)) => loaded = NullToken

\* a response with every field replaces an older credential, and is read a
\* tick later
C15_Witness ==
    /\ LoadedAfterStore
    /\ prevFile = OldCredential(toISOString(600000))
    /\ cacheIn.extras = AllExtras
    /\ cacheIn.expires_in = 600
    /\ cacheAt = TickMs
    /\ now = 2 * TickMs
    /\ loaded # NullToken
    /\ loaded.expiresAt = toISOString(TickMs + 600000)

\* the file holds a JSON text
HoldsCredential == tokenFile \notin {Absent, EmptyFile}

\* C16: isTokenExpired returns true when no credential is stored or the
\* stored credential has no expiresAt; otherwise it returns true exactly
\* when expiresAt minus the current time is less than 300 s: a credential
\* that expires in 60 s is expired, one that expires in 600 s is not, and
\* one past its expiresAt is expired.
C16_ExpiryMargin ==
    cacheOp = "expired" =>
        /\ ~HoldsCredential => expired
        /\ (HoldsCredential /\ tokenFile.json.expiresAt = Null) => expired
        /\ (HoldsCredential /\ tokenFile.json.expiresAt # Null) =>
              LET remaining == tokenFile.json.expiresAt[2] - now
              IN /\ expired = (remaining < 300 * 1000)
                 /\ remaining = 60 * 1000 => expired
                 /\ remaining = 600 * 1000 => ~expired
                 /\ remaining < 0 => expired

\* a credential stored with expires_in = 300 is not yet expired when it is
\* checked at once
C16_Witness ==
    /\ cacheOp = "expired"
    /\ HoldsCredential
    /\ tokenFile.json.expiresAt # Null
    /\ tokenFile.json.expiresAt[2] - now = 300 * 1000
    /\ ~expired

\* C17: a credential whose expiresAt is null does not expire: requireAuth
\* returns it and isTokenExpired is false at every time after it was stored.
C17_NullExpiresAtNeverExpires ==
    (HoldsCredential /\ tokenFile.json.expiresAt = Null) =>
        /\ cacheOp = "auth" => (auth.outcome = "return" /\ auth.token = tokenFile.json)
        /\ cacheOp = "expired" => ~expired

\* what C18 says of a single state
C18_StateOfRequireAuth ==
    cacheOp = "auth" =>
        /\ auth.outcome \in {"return", "exit"}
        /\ auth.outcome = "return" <=> (HoldsCredential /\ ~isTokenExpired(tokenFile, now))
        /\ auth.outcome = "return" =>
              /\ auth.token = tokenFile.json
              /\ auth.exitCode = Running
        /\ auth.outcome = "exit" =>
              /\ auth.token = NullToken
              /\ auth.exitCode = 1
              /\ auth.message =
                    (IF HoldsCredential THEN SessionExpiredMessage ELSE NotAuthenticatedMessage)

\* C18: requireAuth returns the stored credential if and only if a
\* credential is present and isTokenExpired is false; otherwise it returns
\* no credential, shows a please-log-in message and exits with code 1; it
\* leaves the credential file as it is.
C18_RequireAuth ==
    /\ []C18_StateOfRequireAuth
    /\ [][cacheOp' = "auth" => tokenFile' = tokenFile]_vars

\* two ticks after the start the credential that expires at 600 s is refused
C18_Witness ==
    /\ cacheOp = "auth"
    /\ tokenFile = OldCredential(toISOString(600000))
    /\ now = 2 * TickMs
    /\ auth.outcome = "exit"
    /\ auth.message = SessionExpiredMessage

\* C19: when the process is interrupted during the write of storeToken, or
\* getStoredToken runs while the write is under way, the credential read is
\* the complete previous one or the complete new one, and is not null when
\* there was a previous credential.
C19_StoreIsAtomic ==
    (cacheOp = "load" /\ (cachePc = "writing" \/ cachePrev = "interrupted")) =>
        /\ loaded \in {getStoredToken(prevFile),
                        JSONParse(JSONStringify(storeToken(cacheIn, cacheAt)))}
        /\ prevFile # Absent => loaded # NullToken

\* C21 as the specification states it: getStoredToken and clearStoredToken
\* never throw, getStoredToken returns null when the file is missing or
\* cannot be read, and after clearStoredToken the file is absent.
C21_LoadAndClearTolerateAbsence ==
    /\ cacheOp # "threw"
    /\ (cacheOp = "load" /\ ~HoldsCredential) => loaded = NullToken
    /\ cacheOp = "clear" => tokenFile = Absent

\* C21: getStoredToken never throws, it returns null when the file is
\* missing or does not parse and the parsed content otherwise;
\* clearStoredToken never throws: when there is no file it returns false and
\* there is still none, when it returns true the file that existed is
\* absent, and when it returns false the file is as it was before.
C21_LoadAndClearNeverThrow ==
    /\ cacheOp # "threw"
    /\ cacheOp = "load" =>
          /\ ~HoldsCredential => loaded = NullToken
          /\ HoldsCredential => loaded = tokenFile.json
    /\ cacheOp = "clear" =>
          /\ prevFile = Absent => (~cacheOk /\ tokenFile = Absent)
          /\ cacheOk => (prevFile # Absent /\ tokenFile = Absent)
          /\ ~cacheOk => tokenFile = prevFile

\* no file: getStoredToken returned null, and clearStoredToken then false
C21_Witness ==
    /\ cacheOp = "clear"
    /\ cachePrev = "load"
    /\ prevFile = Absent
    /\ tokenFile = Absent
    /\ ~cacheOk

\* every character of the code is a letter or a digit
Alphanumeric(code) ==
    \A i \in 1..Len(code) :
        \/ code[i] \in Digits
        \/ \E k \in 1..Len(Lower) : code[i] \in {Lower[k], Upper[k]}

\* C22: GET device answers 200 only for a user_code that is well-formed and
\* names a pending, unexpired request; a missing, malformed or unknown code
\* is answered with a 4xx status.
C22_ValidatorAcceptsOnlyPending ==
    deviceOp \in {"api_device", "device"} =>
        /\ httpStatus = 200 =>
              /\ user_code \notin {Undefined, NotAString}
              /\ Len(normalizeCode(user_code)) = 8
              /\ Alphanumeric(normalizeCode(user_code))
              /\ normalizeCode(user_code) \in pendingCodes
        /\ httpStatus # 200 => httpStatus \in 400..499

\* the code has no whitespace at its ends, no hyphen and no lower-case letter
Canonical(code) ==
    /\ Len(code) > 0 => (code[1] \notin Whitespace /\ code[Len(code)] \notin Whitespace)
    /\ \A i \in 1..Len(code) : code[i] # "-" /\ ~(\E k \in 1..Len(Lower) : Lower[k] = code[i])

\* C30: normalising a user code (trim, remove the hyphens, upper case), as
\* the validator and the device pages do, gives a code that normalising
\* leaves as it is, free of hyphens and in upper case, so that a code of 8
\* characters that is accepted has no whitespace at its ends.
C30_NormalisationIsIdempotent ==
    (deviceOp \in {"api_device", "verifyCode", "handleVerify"} /\ formattedCode # Undefined) =>
        /\ normalizeCode(formattedCode) = formattedCode
        /\ Canonical(formattedCode)

\* every answer so far was authorization_pending or slow_down
OnlyPendingOrSlowDown == nPending + nSlowDown = attempts

\* what C24 says of a single state: the number of attempts is at most
\* expires_in divided by the initial interval, rounded up
C24_StateOfAttempts ==
    (OnlyPendingOrSlowDown /\ attempts > 0) =>
        (attempts - 1) * initialInterval * 1000 < expiresInMs

\* C24: when every exchange request is answered, pollForToken ends for
\* every sequence of answers; with only authorization_pending and slow_down
\* answers it makes at most expires_in / interval attempts, rounded up, and
\* then stops.
C24_PollerTerminates ==
    /\ []C24_StateOfAttempts
    /\ (pc = "poll") ~> (pc \notin {"poll", "exchange"})

\* five pending answers at 4 s each use up the 20 s, and the poller stopped
C24_Witness ==
    /\ pollResult = "null"
    /\ OnlyPendingOrSlowDown
    /\ attempts = 5
    /\ initialInterval = 4
    /\ expiresInMs = 20000
    /\ pc = "exited"

\* the latest exchange request was never answered
HungRequest == attempts > 0 /\ now - lastAttemptAt >= HeadersTimeoutMs

\* C25: when an exchange request never receives a response, pollForToken
\* still stops by the expires_in deadline.
C25_HungRequestEndsByDeadline ==
    HungRequest => (pc = "exited" /\ now - startTime <= expiresInMs)

\* C26 as the specification states it: storeToken is called at most once,
\* and if and only if pollForToken returned a token; a run that ends in a
\* registration failure, a denial, an expiry, another error, a timeout or a
\* cancel never calls it.
C26_StoreIffToken ==
    /\ storeCalls <= 1
    /\ storeCalls = 1 => pollResult = "token"
    /\ (pc = "exited" /\ pollResult = "token") => storeCalls = 1
    /\ (pc = "exited" /\ (pollResult # "token" \/ cancelled)) => storeCalls = 0

\* what C26 says of a single state
C26_StateOfStoreCalls ==
    /\ storeCalls <= 1
    /\ storeCalls = 1 => (pollResult = "token" /\ Truthy(token.access_token))
    /\ (pc = "exited" /\ pollResult = "token" /\ ~cancelled) => storeCalls = 1
    /\ (pc = "exited" /\ pollResult # "token") => storeCalls = 0

\* C26: in every run of login storeToken is called at most once and only
\* after pollForToken returned a token; a run in which it returned a token
\* and that is not interrupted calls it exactly once; a run that ends in a
\* registration failure, a denial, an expiry, another error, a timeout or a
\* cancel before pollForToken returned never calls it.
C26_StoreOnlyAfterToken ==
    /\ []C26_StateOfStoreCalls
    /\ [][storeCalls' # storeCalls => (pc = "finish" /\ storeCalls' = 1)]_vars

\* two pending answers, a token, one call of storeToken
C26_Witness ==
    /\ pc = "exited"
    /\ pollResult = "token"
    /\ ~cancelled
    /\ nPending = 2
    /\ attempts = 3
    /\ storeCalls = 1
    /\ saved

\* C27: when the user chooses to log in again while a valid credential is
\* stored and the new device flow ends without a token, the credential that
\* was stored before is still there, unchanged.
C27_ReLoginKeepsCredential ==
    (pc = "exited" /\ storeCalls = 0 /\ prevFile # Absent) => tokenFile = prevFile

\* C28: the commands that need a logged-in user (whoami, wakeup and the
\* chat, tool and agent modes it starts) refuse a stored credential that
\* isTokenExpired reports as expired: none of them looks the user up with
\* it or goes on with it.
C28_ExpiredCredentialIsRefused ==
    (cacheOp \in {"whoami", "wakeup", "chat"} /\ HoldsCredential
        /\ isTokenExpired(tokenFile, now)) =>
            /\ auth.outcome \in {"exit", "throw"}
            /\ auth.token = NullToken

\* what C29 says of a single state of the approval page
C29_StateOfPage ==
    /\ inFlight.approve + inFlight.deny <= 1
    /\ inFlight.approve = 1 <=> approvalStatus = "approving"
    /\ inFlight.deny = 1 <=> approvalStatus = "denying"
    /\ approvalStatus # "loading" => (checkAuth = "done" /\ approvalUser \in Sessions \ {Null, Undefined})

\* what C29 says of a single step of the approval page
C29_StepOfPage ==
    /\ (approvesSent' # approvesSent \/ deniesSent' # deniesSent) =>
          /\ approvalStatus = "ready"
          /\ approvalUser \in Sessions \ {Null, Undefined}
          /\ approvesSent' + deniesSent' = approvesSent + deniesSent + 1
    /\ approvalStatus \in {"success", "denied"} => approvalStatus' = approvalStatus
    /\ (approvalStatus' = "ready" /\ approvalStatus # "ready") =>
          approvalStatus \in {"loading", "error"}

\* C29: on the device approval page an approve or deny request is sent only
\* from the status ready, which is reached only after a session with a user
\* was found; while a request is in flight (approving or denying) no second
\* request is sent; success and denied are left by no step and allow no
\* further request, and apart from loading only error leads to ready.
C29_ApprovalPage == []C29_StateOfPage /\ [][C29_StepOfPage]_vars

\* a failed approve, Try Again, and then a deny that the server accepted
C29_Witness ==
    /\ approvalStatus = "denied"
    /\ approvesSent = 1
    /\ deniesSent = 1
    /\ approvalError = Null

====
